---- MODULE Spec2Model ----
(***************************************************************************)
(* Balanced-ternary fixed-width numbers: the binary operators of           *)
(* src/number/binary_ops.rs (Add, AddAssign, AddAssign<Trit>, Sub,         *)
(* SubAssign, Mul, MulAssign, Div, DivAssign) over Number<N>.              *)
(*                                                                         *)
(* A Number<N> is a sequence of N trits, most significant first (index 1   *)
(* of the sequence is index 0 of the array).  A trit is -1, 0 or 1.        *)
(* The loops of the operators are step functions on a record of their      *)
(* locals; the operators iterate them, and the actions run them one        *)
(* iteration at a time.                                                    *)
(***************************************************************************)
EXTENDS Integers, Sequences, FiniteSets, TLC

VARIABLES a, b, d, temp, out, op, pc, frame, panic

vars == <<a, b, d, temp, out, op, pc, frame, panic>>

(* ---------------------------------------------------------------- bounds *)

\* Width N of the numbers whose operand pairs are enumerated exhaustively.
Width == 3

\* Width of the numbers of the repository's tests (Number::<8>).
TestWidth == 8

(* ------------------------------------------------------------------ Trit *)

NEG == -1
ZERO == 0
POS == 1

Trit == {NEG, ZERO, POS}

\* SumResult{result, carry} of a raw digit sum in -3..3:
\* 3*carry + result = raw and result is a trit.
SumResult(raw) ==
    LET c == IF raw >= 2 THEN POS ELSE IF raw <= -2 THEN NEG ELSE ZERO
    IN  [result |-> raw - 3 * c, carry |-> c]

\* Trit::add_with_carry(&self, other, carry)
add_with_carry(t, other, carry_in) == SumResult(t + other + carry_in)

\* Trit::add(&self, other)
add(t, other) == SumResult(t + other)

(* ---------------------------------------------------------------- Number *)

\* All Number<n>.
Number(n) == [1..n -> Trit]

\* Number::<N>::ZERO, at the width of n.
NumberZERO(n) == [i \in 1..Len(n) |-> ZERO]

\* Number::from_rev_iter: the number whose digits are the iterator's items,
\* least significant first.
from_rev_iter(rev) == [i \in 1..Len(rev) |-> rev[Len(rev) + 1 - i]]

\* Number::<w>::from("..."): the digits written, right-aligned, zero-padded.
from(w, digits) ==
    [i \in 1..w |-> IF i > w - Len(digits) THEN digits[i - (w - Len(digits))] ELSE ZERO]

\* Neg for Number<N>: every digit flipped.
Neg(n) == [i \in 1..Len(n) |-> -n[i]]

\* ShlAssign (n <<= k): digits move k positions towards the most significant
\* end, the k most significant digits are dropped, zeros enter at the other end.
Shl(n, k) == [i \in 1..Len(n) |-> IF i + k <= Len(n) THEN n[i + k] ELSE ZERO]

\* Ord for Number<N>: the most significant differing digit decides.
Lt(x, y) ==
    \E i \in 1..Len(x) : /\ x[i] < y[i]
                         /\ \A j \in 1..(i - 1) : x[j] = y[j]

Ge(x, y) == ~Lt(x, y)

(* ------------------------------------------------------------------- Add *)

\* The scan of Add::add: the result digits, least significant first, after k
\* positions have been consumed with the carry threaded through.
RECURSIVE AddScan(_, _, _, _)
AddScan(self, rhs, k, carry) ==
    IF k = Len(self) THEN <<>>
    ELSE LET s == add_with_carry(self[Len(self) - k], rhs[Len(rhs) - k], carry)
         IN  <<s.result>> \o AddScan(self, rhs, k + 1, s.carry)

\* Add with the carry never fed to the next position.
AddCarryNotThreaded(self, rhs) ==
    [i \in 1..Len(self) |-> add_with_carry(self[i], rhs[i], ZERO).result]

Add(self, rhs) == from_rev_iter(AddScan(self, rhs, 0, ZERO))

\* The for_each of AddAssign::add_assign: self is overwritten position by
\* position, the carry lives outside the closure.
RECURSIVE AddAssignLoop(_, _, _, _)
AddAssignLoop(self, rhs, k, carry) ==
    IF k = Len(self) THEN self
    ELSE LET p == Len(self) - k
             s == add_with_carry(self[p], rhs[p], carry)
         IN  AddAssignLoop([self EXCEPT ![p] = s.result], rhs, k + 1, s.carry)

\* AddAssign with the carry declared inside the closure, so reset at every
\* position.
AddAssignCarryReset(self, rhs) ==
    LET RECURSIVE Loop(_, _)
        Loop(n, k) ==
            IF k = Len(n) THEN n
            ELSE LET p == Len(n) - k
                 IN  Loop([n EXCEPT ![p] = add_with_carry(n[p], rhs[p], ZERO).result], k + 1)
    IN  Loop(self, 0)

AddAssign(self, rhs) == AddAssignLoop(self, rhs, 0, ZERO)

(* ------------------------------------------------------- AddAssign<Trit> *)

\* Locals of AddAssign<Trit>::add_assign on entry; k counts the positions the
\* iterator has yielded.
AddAssignTritStart(self, rhs) == [self |-> self, carry |-> rhs, k |-> 0]

\* The loop without its break.
AddAssignTritExitNoBreak(st) == st.k = Len(st.self)

\* The loop is left when the iterator is exhausted or on the break.
AddAssignTritExit(st) == st.k = Len(st.self) \/ st.carry = ZERO

\* One pass of the loop body.
AddAssignTritBody(st) ==
    LET p == Len(st.self) - st.k
        s == add(st.self[p], st.carry)
    IN  [self |-> [st.self EXCEPT ![p] = s.result], carry |-> s.carry, k |-> st.k + 1]

RECURSIVE AddAssignTritLoop(_)
AddAssignTritLoop(st) ==
    IF AddAssignTritExit(st) THEN st ELSE AddAssignTritLoop(AddAssignTritBody(st))

AddAssignTrit(self, rhs) == AddAssignTritLoop(AddAssignTritStart(self, rhs)).self

\* Number::inc: the single-digit increment, self += Trit::POS.
inc(n) == AddAssignTrit(n, POS)

(* ------------------------------------------------------------------- Sub *)

Sub(self, rhs) == Add(self, Neg(rhs))

\* SubAssign negating the wrong operand.
SubAssignNegatesSelf(self, rhs) == AddAssign(Neg(self), rhs)

SubAssign(self, rhs) == AddAssign(self, Neg(rhs))

(* ------------------------------------------------------------------- Mul *)

\* Locals of Mul::mul on entry: the shifter's captured copy of rhs, the
\* accumulator of sum(), and the count k of digits of self consumed.
MulStart(self, rhs) == [rhs_shifted |-> rhs, acc |-> NumberZERO(self), k |-> 0]

\* The loop body with a shifter that never shifts.
MulBodyNoShift(self, st) ==
    LET current_trit == self[Len(self) - st.k]
        item == IF current_trit = NEG THEN <<Neg(st.rhs_shifted)>>
                ELSE IF current_trit = ZERO THEN <<>>
                ELSE <<st.rhs_shifted>>
    IN  [rhs_shifted |-> st.rhs_shifted,
         acc |-> IF item = <<>> THEN st.acc ELSE Add(st.acc, item[1]),
         k |-> st.k + 1]

\* The loop body with a shifter that shifts before it yields.
MulBodyShiftsFirst(self, st) ==
    LET current_trit == self[Len(self) - st.k]
        yielded == Shl(st.rhs_shifted, 1)
        item == IF current_trit = NEG THEN <<Neg(yielded)>>
                ELSE IF current_trit = ZERO THEN <<>>
                ELSE <<yielded>>
    IN  [rhs_shifted |-> Shl(st.rhs_shifted, 1),
         acc |-> IF item = <<>> THEN st.acc ELSE Add(st.acc, item[1]),
         k |-> st.k + 1]

\* One item through zip / filter_map / sum: the shifter yields its copy and
\* shifts it, the digit selects the copy, its negation or nothing.
MulBody(self, st) ==
    LET current_trit == self[Len(self) - st.k]
        yielded == st.rhs_shifted
        item == IF current_trit = NEG THEN <<Neg(yielded)>>
                ELSE IF current_trit = ZERO THEN <<>>
                ELSE <<yielded>>
    IN  [rhs_shifted |-> Shl(st.rhs_shifted, 1),
         acc |-> IF item = <<>> THEN st.acc ELSE Add(st.acc, item[1]),
         k |-> st.k + 1]

RECURSIVE MulLoop(_, _)
MulLoop(self, st) ==
    IF st.k = Len(self) THEN st ELSE MulLoop(self, MulBody(self, st))

Mul(self, rhs) == MulLoop(self, MulStart(self, rhs)).acc

MulAssign(self, rhs) == Mul(self, rhs)

(* ------------------------------------------------------------------- Div *)

DivideByZero == "Attempt to divide by zero"

\* Locals of Div::div after the zero check, before the loop.
DivStart(self, divisor) ==
    LET numerator_is_negative == Lt(self, NumberZERO(self))
        divisor_is_negative == Lt(divisor, NumberZERO(divisor))
    IN  [numerator_is_negative |-> numerator_is_negative,
         abs_remainder |-> IF numerator_is_negative THEN Neg(self) ELSE self,
         divisor_is_negative |-> divisor_is_negative,
         abs_divisor |-> IF divisor_is_negative THEN Neg(divisor) ELSE divisor,
         quotient |-> NumberZERO(self)]

\* The loop condition with > for >=.
DivCondStrict(st) == Lt(st.abs_divisor, st.abs_remainder)

\* while abs_remainder >= abs_divisor
DivCond(st) == Ge(st.abs_remainder, st.abs_divisor)

\* The loop body adding the divisor to the remainder.
DivBodyAddsDivisor(st) ==
    [st EXCEPT !.abs_remainder = AddAssign(st.abs_remainder, st.abs_divisor),
               !.quotient = inc(st.quotient)]

\* abs_remainder -= abs_divisor; quotient.inc();
DivBody(st) ==
    [st EXCEPT !.abs_remainder = SubAssign(st.abs_remainder, st.abs_divisor),
               !.quotient = inc(st.quotient)]

\* The result signed by the numerator alone.
DivResultNumeratorSign(st) ==
    IF st.numerator_is_negative THEN Neg(st.quotient) ELSE st.quotient

\* The value returned after the loop.
DivResult(st) ==
    IF st.numerator_is_negative # st.divisor_is_negative
    THEN Neg(st.quotient)
    ELSE st.quotient

RECURSIVE DivLoop(_)
DivLoop(st) == IF DivCond(st) THEN DivLoop(DivBody(st)) ELSE st

\* Div::div for a non-zero divisor (a zero divisor panics, see CallDiv).
Div(self, divisor) == DivResult(DivLoop(DivStart(self, divisor)))

DivAssign(self, divisor) == Div(self, divisor)

(* ----------------------------------------------------------------- state *)

\* Numbers of the tests, at TestWidth.
num_23 == from(TestWidth, <<POS, ZERO, NEG, NEG>>)
num_33 == from(TestWidth, <<POS, POS, NEG, ZERO>>)
num_59 == from(TestWidth, <<POS, NEG, POS, NEG, NEG>>)
num_60 == from(TestWidth, <<POS, NEG, POS, NEG, ZERO>>)
num_61 == from(TestWidth, <<POS, NEG, POS, NEG, POS>>)
num_12 == from(TestWidth, <<POS, POS, ZERO>>)
num_0 == from(TestWidth, <<>>)

TestNumbers ==
    LET pos == {num_23, num_33, num_59, num_60, num_61, num_12}
    IN  pos \cup {Neg(n) : n \in pos} \cup {num_0}

\* The operand pairs: every pair at Width, and the tests' numbers at TestWidth.
Operands == (Number(Width) \X Number(Width)) \cup (TestNumbers \X TestNumbers)

\* No value (out before an operator returned, frame outside a loop).
None == <<>>

Init ==
    /\ \E pair \in Operands : a = pair[1] /\ b = pair[2] /\ temp = pair[1]
    /\ d = ZERO
    /\ out = None
    /\ op = "none"
    /\ pc = "ready"
    /\ frame = None
    /\ panic = ""

(* --------------------------------------------------------------- actions *)

\* The left operand of the running operator: a by value, temp in place.
Self == IF op \in {"mul_assign", "div_assign"} THEN temp ELSE a

\* a + b
CallAdd ==
    /\ pc = "ready"
    /\ op' = "add"
    /\ out' = Add(a, b)
    /\ pc' = "done"
    /\ UNCHANGED <<a, b, d, temp, frame, panic>>

\* temp += b
CallAddAssign ==
    /\ pc = "ready"
    /\ op' = "add_assign"
    /\ temp' = AddAssign(temp, b)
    /\ pc' = "done"
    /\ UNCHANGED <<a, b, d, out, frame, panic>>

\* temp += t, entry
CallAddAssignTrit ==
    /\ pc = "ready"
    /\ \E t \in Trit :
          /\ d' = t
          /\ frame' = [carry |-> AddAssignTritStart(temp, t).carry,
                       k |-> AddAssignTritStart(temp, t).k]
    /\ op' = "add_assign_trit"
    /\ pc' = "trit_loop"
    /\ UNCHANGED <<a, b, temp, out, panic>>

\* temp += t, one pass of the loop
AddAssignTritIter ==
    /\ pc = "trit_loop"
    /\ LET st == [self |-> temp, carry |-> frame.carry, k |-> frame.k]
       IN  /\ ~AddAssignTritExit(st)
           /\ temp' = AddAssignTritBody(st).self
           /\ frame' = [carry |-> AddAssignTritBody(st).carry,
                        k |-> AddAssignTritBody(st).k]
    /\ UNCHANGED <<a, b, d, out, op, pc, panic>>

\* temp += t, the loop is left
AddAssignTritReturn ==
    /\ pc = "trit_loop"
    /\ AddAssignTritExit([self |-> temp, carry |-> frame.carry, k |-> frame.k])
    /\ pc' = "done"
    /\ UNCHANGED <<a, b, d, temp, out, op, frame, panic>>

\* a - b
CallSub ==
    /\ pc = "ready"
    /\ op' = "sub"
    /\ out' = Sub(a, b)
    /\ pc' = "done"
    /\ UNCHANGED <<a, b, d, temp, frame, panic>>

\* temp -= b
CallSubAssign ==
    /\ pc = "ready"
    /\ op' = "sub_assign"
    /\ temp' = SubAssign(temp, b)
    /\ pc' = "done"
    /\ UNCHANGED <<a, b, d, out, frame, panic>>

\* a * b, entry
CallMul ==
    /\ pc = "ready"
    /\ op' = "mul"
    /\ frame' = MulStart(a, b)
    /\ pc' = "mul_loop"
    /\ UNCHANGED <<a, b, d, temp, out, panic>>

\* temp *= b, entry (the product of *self and rhs is computed first)
CallMulAssign ==
    /\ pc = "ready"
    /\ op' = "mul_assign"
    /\ frame' = MulStart(temp, b)
    /\ pc' = "mul_loop"
    /\ UNCHANGED <<a, b, d, temp, out, panic>>

\* one digit of the left operand consumed
MulIter ==
    /\ pc = "mul_loop"
    /\ frame.k < Len(Self)
    /\ frame' = MulBody(Self, frame)
    /\ UNCHANGED <<a, b, d, temp, out, op, pc, panic>>

\* the sum is returned, and for *= stored into *self
MulReturn ==
    /\ pc = "mul_loop"
    /\ frame.k = Len(Self)
    /\ IF op = "mul"
       THEN out' = frame.acc /\ temp' = temp
       ELSE temp' = frame.acc /\ out' = out
    /\ pc' = "done"
    /\ UNCHANGED <<a, b, d, op, frame, panic>>

\* a / b with the zero check made on the dividend.
CallDivChecksDividend ==
    /\ pc = "ready"
    /\ op' = "div"
    /\ \/ /\ a = NumberZERO(a)
          /\ panic' = DivideByZero
          /\ pc' = "panic"
          /\ frame' = frame
       \/ /\ a # NumberZERO(a)
          /\ frame' = DivStart(a, b)
          /\ pc' = "div_loop"
          /\ panic' = panic
    /\ UNCHANGED <<a, b, d, temp, out>>

\* a / b, entry: the zero check, then the locals
CallDiv ==
    /\ pc = "ready"
    /\ op' = "div"
    /\ \/ /\ b = NumberZERO(b)
          /\ panic' = DivideByZero
          /\ pc' = "panic"
          /\ frame' = frame
       \/ /\ b # NumberZERO(b)
          /\ frame' = DivStart(a, b)
          /\ pc' = "div_loop"
          /\ panic' = panic
    /\ UNCHANGED <<a, b, d, temp, out>>

\* temp /= b, entry
CallDivAssign ==
    /\ pc = "ready"
    /\ op' = "div_assign"
    /\ \/ /\ b = NumberZERO(b)
          /\ panic' = DivideByZero
          /\ pc' = "panic"
          /\ frame' = frame
       \/ /\ b # NumberZERO(b)
          /\ frame' = DivStart(temp, b)
          /\ pc' = "div_loop"
          /\ panic' = panic
    /\ UNCHANGED <<a, b, d, temp, out>>

\* one subtraction of the divisor
DivIter ==
    /\ pc = "div_loop"
    /\ DivCond(frame)
    /\ frame' = DivBody(frame)
    /\ UNCHANGED <<a, b, d, temp, out, op, pc, panic>>

\* the signed quotient is returned, and for /= stored into *self
DivReturn ==
    /\ pc = "div_loop"
    /\ ~DivCond(frame)
    /\ IF op = "div"
       THEN out' = DivResult(frame) /\ temp' = temp
       ELSE temp' = DivResult(frame) /\ out' = out
    /\ pc' = "done"
    /\ UNCHANGED <<a, b, d, op, frame, panic>>

Next ==
    \/ CallAdd
    \/ CallAddAssign
    \/ CallAddAssignTrit
    \/ AddAssignTritIter
    \/ AddAssignTritReturn
    \/ CallSub
    \/ CallSubAssign
    \/ CallMul
    \/ CallMulAssign
    \/ MulIter
    \/ MulReturn
    \/ CallDiv
    \/ CallDivAssign
    \/ DivIter
    \/ DivReturn

Spec == Init /\ [][Next]_vars

(* ------------------------------------------------- values, for the claims *)

RECURSIVE Pow3(_)
Pow3(k) == IF k = 0 THEN 1 ELSE 3 * Pow3(k - 1)

\* The value of the k most significant digits of n, read as a k-digit number.
RECURSIVE ValueHigh(_, _)
ValueHigh(n, k) == IF k = 0 THEN 0 ELSE 3 * ValueHigh(n, k - 1) + n[k]

\* Value = sum of digit[i] * 3^(N-1-i).
Value(n) == ValueHigh(n, Len(n))

\* The value of the k least significant digits of n.
RECURSIVE ValueLow(_, _)
ValueLow(n, k) ==
    IF k = 0 THEN 0 ELSE ValueLow(n, k - 1) + n[Len(n) + 1 - k] * Pow3(k - 1)

\* The largest value of an n-digit number, (3^n - 1) / 2.
MaxValue(n) == (Pow3(n) - 1) \div 2

Abs(x) == IF x < 0 THEN -x ELSE x

\* x and y are congruent modulo 3^n.
Congruent(x, y, n) == (x - y) % Pow3(n) = 0

Returned(o) == pc = "done" /\ op = o

(* ---------------------------------------------------------------- claims *)

\* C1: a + b is an N-digit number whose value is congruent to
\* value(a) + value(b) modulo 3^N (the carry out of the most significant
\* position is dropped), and is exactly the sum when the sum is within
\* +-(3^N-1)/2; 23 + 33 = 56 at width 8.
C1_AddIsSumModulo ==
    Returned("add") =>
        /\ out \in Number(Len(a))
        /\ Congruent(Value(out), Value(a) + Value(b), Len(a))
        /\ Abs(Value(a) + Value(b)) <= MaxValue(Len(a))
              => Value(out) = Value(a) + Value(b)
        /\ (a = num_23 /\ b = num_33)
              => out = from(TestWidth, <<POS, NEG, ZERO, POS, NEG>>)

\* C1 witness: an addition whose sum exceeds the range has returned the sum
\* wrapped by 3^N.
C1_Witness ==
    /\ Returned("add")
    /\ Value(a) + Value(b) > MaxValue(Len(a))
    /\ Value(out) = Value(a) + Value(b) - Pow3(Len(a))

\* C2: when the true product is within +-(3^N-1)/2, a * b is the exact
\* product; 23 * 33 = 759 at width 8.
C2_MulExactInRange ==
    Returned("mul") =>
        /\ out \in Number(Len(a))
        /\ Abs(Value(a) * Value(b)) <= MaxValue(Len(a))
              => Value(out) = Value(a) * Value(b)
        /\ (a = num_23 /\ b = num_33)
              => out = from(TestWidth, <<POS, ZERO, ZERO, POS, ZERO, POS, ZERO>>)

\* C2 witness: an exact in-range product for which a shifted copy of b that
\* a non-zero digit of a selected did not fit in N digits.
C2_Witness ==
    /\ Returned("mul")
    /\ Abs(Value(a) * Value(b)) <= MaxValue(Len(a))
    /\ Value(out) = Value(a) * Value(b)
    /\ \E i \in 1..(Len(a) - 1) :
          /\ a[Len(a) - i] # ZERO
          /\ Abs(Value(b) * Pow3(i)) > MaxValue(Len(a))

\* C3: division truncates toward zero: |q| * |y| <= |x| < (|q| + 1) * |y|;
\* 59/12 = 4, 60/12 = 5, 61/12 = 5, -59/12 = -4, ZERO / y = ZERO.
C3_DivTruncatesTowardZero ==
    Returned("div") =>
        /\ Abs(Value(out)) * Abs(Value(b)) <= Abs(Value(a))
        /\ Abs(Value(a)) < (Abs(Value(out)) + 1) * Abs(Value(b))
        /\ (a = num_59 /\ b = num_12) => out = from(TestWidth, <<ZERO, POS, POS>>)
        /\ (a = num_60 /\ b = num_12) => out = from(TestWidth, <<POS, NEG, NEG>>)
        /\ (a = num_61 /\ b = num_12) => out = from(TestWidth, <<POS, NEG, NEG>>)
        /\ (a = Neg(num_59) /\ b = num_12) => out = from(TestWidth, <<ZERO, NEG, NEG>>)
        /\ a = NumberZERO(a) => out = NumberZERO(a)

\* C3 witness: -59 / 12 has returned -4.
C3_Witness ==
    /\ Returned("div")
    /\ a = Neg(num_59)
    /\ b = num_12
    /\ Value(out) = -4

\* C4 as stated: for non-zero x and y, x / y is negative iff exactly one of
\* x, y is negative.
C4_SignRuleAsStated ==
    (Returned("div") /\ a # NumberZERO(a) /\ b # NumberZERO(b)) =>
        (Lt(out, NumberZERO(out)) <=>
            (Lt(a, NumberZERO(a)) # Lt(b, NumberZERO(b))))

\* C4 amended: for non-zero x and y, x / y is negative iff exactly one of
\* x, y is negative and |x| >= |y|; when |x| < |y| the quotient is ZERO.
C4_SignRuleNonZeroQuotient ==
    (Returned("div") /\ a # NumberZERO(a) /\ b # NumberZERO(b)) =>
        /\ Lt(out, NumberZERO(out)) <=>
              /\ Lt(a, NumberZERO(a)) # Lt(b, NumberZERO(b))
              /\ Abs(Value(a)) >= Abs(Value(b))
        /\ Abs(Value(a)) < Abs(Value(b)) => out = NumberZERO(out)

\* C4 witness: operands of different sign with |x| >= |y| gave a negative
\* quotient.
C4_Witness ==
    /\ Returned("div")
    /\ Lt(NumberZERO(a), a)
    /\ Lt(b, NumberZERO(b))
    /\ Abs(Value(a)) >= Abs(Value(b))
    /\ Lt(out, NumberZERO(out))

\* C5: x / ZERO and x /= ZERO abort with "Attempt to divide by zero" before
\* any subtraction step and without a quotient; a non-zero divisor never
\* raises it, and no other operator does.
C5_DivideByZeroIsFatal ==
    /\ op \in {"div", "div_assign"} => (pc = "panic" <=> b = NumberZERO(b))
    /\ pc = "panic" =>
          /\ op \in {"div", "div_assign"}
          /\ panic = "Attempt to divide by zero"
          /\ out = None
          /\ temp = a
          /\ frame = None
    /\ pc # "panic" => panic = ""

\* C5 witness: a negative dividend divided in place by ZERO has aborted.
C5_Witness ==
    /\ pc = "panic"
    /\ op = "div_assign"
    /\ Lt(a, NumberZERO(a))
    /\ b = NumberZERO(b)

\* C6: x - y and the x left by x -= y are digit for digit x + negate(y),
\* negate flipping every digit; 23 - 33 = -10 and 33 - 23 = 10 at width 8.
C6_SubIsAddOfNegation ==
    LET flipped == [i \in 1..Len(b) |-> IF b[i] = POS THEN NEG
                                        ELSE IF b[i] = NEG THEN POS ELSE ZERO]
    IN  /\ Returned("sub") =>
              /\ out = Add(a, flipped)
              /\ (a = num_23 /\ b = num_33) => out = from(TestWidth, <<NEG, ZERO, NEG>>)
              /\ (a = num_33 /\ b = num_23) => out = from(TestWidth, <<POS, ZERO, POS>>)
        /\ Returned("sub_assign") =>
              /\ temp = Add(a, flipped)
              /\ (a = num_23 /\ b = num_33) => temp = from(TestWidth, <<NEG, ZERO, NEG>>)
              /\ (a = num_33 /\ b = num_23) => temp = from(TestWidth, <<POS, ZERO, POS>>)

\* C6 witness: 23 -= 33 has left -10.
C6_Witness ==
    /\ Returned("sub_assign")
    /\ a = num_23
    /\ b = num_33
    /\ Value(temp) = -10

\* C7: after a += b, a -= b, a *= b and (b # ZERO) a /= b, the left operand
\* is digit for digit a + b, a - b, a * b, a / b of the original a.
C7_InPlaceEqualsByValue ==
    /\ Returned("add_assign") => temp = Add(a, b)
    /\ Returned("sub_assign") => temp = Sub(a, b)
    /\ Returned("mul_assign") => temp = Mul(a, b)
    /\ Returned("div_assign") => temp = Div(a, b)

\* C7 witness: an in-place addition in which a carry crossed positions
\* already overwritten (23 += 33 gives 56).
C7_Witness ==
    /\ Returned("add_assign")
    /\ a = num_23
    /\ b = num_33
    /\ temp # a
    /\ Value(temp) = 56

\* The state part of C8: in the loop and after it quotient * |y| + remainder
\* = |x| with the remainder in [0, |x|]; after it remainder < |y| and the
\* quotient is floor(|x| / |y|).
C8_LoopInvariant ==
    (pc = "div_loop" \/ Returned("div") \/ Returned("div_assign")) =>
        LET x == Abs(Value(a))
            y == Abs(Value(b))
            r == Value(frame.abs_remainder)
            q == Value(frame.quotient)
        IN  /\ y > 0
            /\ Value(frame.abs_divisor) = y
            /\ q * y + r = x
            /\ 0 <= r /\ r <= x
            /\ 0 <= q /\ q <= x \div y
            /\ pc = "done" => (r < y /\ q = x \div y)

\* The step part of C8: every iteration strictly decreases the remainder and
\* counts one.
C8_LoopStep ==
    DivIter =>
        /\ Value(frame'.abs_remainder) < Value(frame.abs_remainder)
        /\ Value(frame'.quotient) = Value(frame.quotient) + 1

\* C8: division by a non-zero divisor terminates after exactly
\* floor(|x| / |y|) iterations with remainder < |y|: every iteration
\* strictly decreases a remainder that stays in [0, |x|] and counts one in
\* the quotient, which never exceeds floor(|x| / |y|) and equals it on
\* exit, and quotient * |y| + remainder = |x| throughout.
C8_DivTerminates ==
    /\ []C8_LoopInvariant
    /\ [][C8_LoopStep]_vars

\* C8 witness: the loop has run at least twice and will run again.
C8_Witness ==
    /\ pc = "div_loop"
    /\ Value(frame.quotient) >= 2
    /\ Value(frame.abs_remainder) >= Value(frame.abs_divisor)

\* The number of positions x += t visits: none for ZERO, otherwise the low
\* digits equal to t (each carries t on) and the first digit that differs.
RECURSIVE Visited(_, _, _)
Visited(n, t, k) ==
    IF t = ZERO THEN 0
    ELSE IF k = Len(n) THEN k
    ELSE IF n[Len(n) - k] = t THEN Visited(n, t, k + 1)
    ELSE k + 1

\* C9: x += t adds t at the least significant position and carries leftward
\* until the carry is ZERO or the most significant position is done: digits
\* above the stopping position are unchanged, x += ZERO changes nothing, and
\* the result is x plus the number whose only non-zero digit is t, last.
C9_TritAddAssign ==
    /\ pc = "trit_loop" =>
          \A p \in 1..(Len(a) - frame.k) : temp[p] = a[p]
    /\ Returned("add_assign_trit") =>
          /\ frame.carry = ZERO \/ frame.k = Len(a)
          /\ frame.k = Visited(a, d, 0)
          /\ \A p \in 1..(Len(a) - frame.k) : temp[p] = a[p]
          /\ d = ZERO => temp = a
          /\ temp = Add(a, from(Len(a), <<d>>))

\* C9 witness: a carry went through two positions and stopped below the most
\* significant one.
C9_Witness ==
    /\ Returned("add_assign_trit")
    /\ frame.k = 2
    /\ frame.k < Len(a)
    /\ frame.carry = ZERO
    /\ temp[1] = a[1]
    /\ temp[Len(a)] # a[Len(a)]

\* C10 as stated: before the i-th least significant digit of a is consumed
\* the shifted copy of b equals b * 3^i.
C10_ShiftedCopyExact ==
    (pc = "mul_loop" /\ frame.k < Len(a)) =>
        Value(frame.rhs_shifted) = Value(b) * Pow3(frame.k)

\* C10 amended: before the i-th least significant digit of a is consumed the
\* shifted copy of b is b * 3^i truncated to N digits (congruent to it modulo
\* 3^N, equal to it when b * 3^i fits); the accumulator starts at ZERO and
\* holds (the i low digits of a) * b modulo 3^N; a * ZERO = ZERO * b = ZERO.
C10_ShiftAndAddInvariant ==
    /\ pc = "mul_loop" =>
          /\ Congruent(Value(frame.rhs_shifted), Value(b) * Pow3(frame.k), Len(a))
          /\ Abs(Value(b) * Pow3(frame.k)) <= MaxValue(Len(a))
                => Value(frame.rhs_shifted) = Value(b) * Pow3(frame.k)
          /\ Congruent(Value(frame.acc), ValueLow(a, frame.k) * Value(b), Len(a))
          /\ frame.k = 0 => frame.acc = NumberZERO(a)
    /\ Returned("mul") =>
          /\ b = NumberZERO(b) => out = NumberZERO(a)
          /\ a = NumberZERO(a) => out = NumberZERO(a)

\* C10 witness: a non-zero digit of a is about to select a shifted copy that
\* is not b * 3^i.
C10_Witness ==
    /\ pc = "mul_loop"
    /\ op = "mul"
    /\ frame.k > 0
    /\ frame.k < Len(a)
    /\ a[Len(a) - frame.k] # ZERO
    /\ Value(frame.rhs_shifted) # Value(b) * Pow3(frame.k)

====
